---- MODULE Spec2Model ----
(***************************************************************************)
(* PDF suspicious-content scanner: the page suspicion scorer               *)
(* (encoding_detector.py), the chunk processor (pdf_processor.py) and the  *)
(* orchestrator and aggregator (function_app.py).                          *)
(*                                                                         *)
(* Numbers.  Scores, confidences and entropies are Python floats in the    *)
(* source.  Here a confidence is an integer counting thousandths, an       *)
(* entropy and a reported (rounded) score count hundredths, and the        *)
(* unrounded page score is the exact rational ScoreNum / (10 * len(text)). *)
(* round(x, 2) is RoundDiv,                                                *)
(* rounding to the nearest hundredth, an exact tie going to the even one.  *)
(* Sums are exact here; in the source a float sum whose mean lies on a     *)
(* tie x.xx5 rounds by its binary value, which depends on the order of     *)
(* the additions.  No formula below relies on the outcome of such a tie.   *)
(***************************************************************************)
EXTENDS Integers, Sequences, FiniteSets, TLC

VARIABLES
    text,           \* the text given to the detector under analysis
    detection,      \* << >> or << what the detector returned >>
    doc,            \* the PDF the caller holds
    request,        \* << >> or << the HTTP request the orchestrator received >>
    pc,             \* where the orchestrator coroutine is
    total_pages,    \* orchestrator_function: total_pages (priming call)
    chunk_size,     \* orchestrator_function: chunk_size after request parsing
    chunks,         \* orchestrator_function: chunks, a list of (start, end)
    tasks,          \* tasks[i]: state of the process_chunk task of chunks[i]
    dispatched,     \* the page ranges posted to the processor, in order
    completed,      \* task indices in the order the tasks completed
    results,        \* the list of chunk results given to combine_results
    combined,       \* << >> or << the document result >>
    responses,      \* status codes of the HTTP responses returned
    combine_calls   \* number of calls of combine_results

vars == << text, detection, doc, request, pc, total_pages, chunk_size, chunks,
           tasks, dispatched, completed, results, combined, responses,
           combine_calls >>

(***************************************************************************)
(* Bounds of the model.                                                    *)
(***************************************************************************)
MaxPages == 3          \* pages of a document in an orchestration
MaxChunkSize == 3      \* largest chunk_size a caller asks for
MaxTotal == 12         \* total_pages when the partition alone is computed
MaxStep == 6           \* chunk_size when the partition alone is computed
MaxRuns == 3           \* encoded runs of one codec in a page text
MaxDocPages == 5       \* pages of a document whose chunks are merged alone
MaxMerge == 3          \* chunk results in a list merged alone
MaxBase64Runs == 6     \* Base64 runs of a page that is 40% Base64
MaxBlocks == 2         \* blocks of a text scanned for high entropy alone
MaxHexRuns == 2        \* hex runs of a page whose runs are told apart
MaxChunkPages == 3     \* pages of a document given to process_pdf_chunk alone

(***************************************************************************)
(* Program constants.                                                      *)
(***************************************************************************)
min_length == 16           \* EncodingDetector.min_length
DefaultChunkSize == 5      \* orchestrator_function: default chunk size
BlockSize == 100           \* detect_high_entropy: block_size

(***************************************************************************)
(* Arithmetic helpers.                                                     *)
(***************************************************************************)
Min(a, b) == IF a <= b THEN a ELSE b

Max(a, b) == IF a >= b THEN a ELSE b

\* Python's range(start, stop) as a sequence
RangeInclusive(start, stop) ==
    [k \in 1..Max(0, stop - start + 1) |-> start + k - 1]

Range(start, stop) == [k \in 1..Max(0, stop - start) |-> start + k - 1]

\* round(a / b) for b > 0: nearest integer, an exact tie to the even one
RoundDiv(a, b) ==
    LET q == a \div b
        r == a % b
    IN  IF 2 * r > b THEN q + 1
        ELSE IF 2 * r < b THEN q
        ELSE IF q % 2 = 0 THEN q ELSE q + 1

\* seq repeated: n copies of x
Copies(n, x) == [k \in 1..n |-> x]

RECURSIVE SumSeq(_)
SumSeq(s) == IF s = << >> THEN 0 ELSE Head(s) + SumSeq(Tail(s))

(***************************************************************************)
(* Shannon entropy.  calculate_entropy reads of a string only how often    *)
(* each of its symbols occurs, so a string is held by its profile: a       *)
(* sequence of [count, symbols] entries, entry e standing for e.symbols    *)
(* distinct symbols that occur e.count times each; << >> is the empty      *)
(* string.  The result counts hundredths and is rounded up, so that        *)
(* entropy > 7.0 and entropy > 7.5 come out as for the real value.         *)
(***************************************************************************)
\* n characters over k distinct symbols, spread as evenly as they go
EvenProfile(n, k) ==
    LET q == n \div k
        r == n % k
    IN  (IF r > 0 THEN << [count |-> q + 1, symbols |-> r] >> ELSE << >>)
        \o (IF q > 0 THEN << [count |-> q, symbols |-> k - r] >> ELSE << >>)

\* len(text)
RECURSIVE ProfileLength(_)
ProfileLength(profile) ==
    IF profile = << >> THEN 0
    ELSE Head(profile).count * Head(profile).symbols
             + ProfileLength(Tail(profile))

RECURSIVE FloorLog2(_)
FloorLog2(n) == IF n < 2 THEN 0 ELSE 1 + FloorLog2(n \div 2)

\* the binary digits after the point of log2(x / 2^14) for x / 2^14 in
\* [1, 2), by repeated squaring; the result counts 1/1024
RECURSIVE Log2Fraction(_, _)
Log2Fraction(x, digits) ==
    IF digits = 0 THEN 0
    ELSE LET y == (x * x) \div 16384
         IN  IF y >= 32768
             THEN 2 ^ (digits - 1) + Log2Fraction(y \div 2, digits - 1)
             ELSE Log2Fraction(y, digits - 1)

\* math.log2(n) for an integer n >= 1, counting 1/1024; exact when n is a
\* power of two
Log2(n) ==
    1024 * FloorLog2(n)
        + Log2Fraction((n * 16384) \div (2 ^ FloorLog2(n)), 10)

\* sum of count * log2(count) over the symbols
RECURSIVE WeightedLogs(_)
WeightedLogs(profile) ==
    IF profile = << >> THEN 0
    ELSE Head(profile).symbols * Head(profile).count * Log2(Head(profile).count)
             + WeightedLogs(Tail(profile))

\* EncodingDetector.calculate_entropy: -sum p * log2(p) with p = count /
\* length, which is log2(length) - sum(count * log2(count)) / length
calculate_entropy(profile) ==
    IF profile = << >> THEN 0
    ELSE LET length == ProfileLength(profile)
             num == length * Log2(length) - WeightedLogs(profile)
         IN  (100 * num + 1024 * length - 1) \div (1024 * length)

(***************************************************************************)
(* Page texts.  A text is held by what the detectors read of it:           *)
(*   len           its number of characters;                               *)
(*   base64        the Base64 candidates (regex matches that pass the      *)
(*                 length test) that decode to readable UTF-8 text;        *)
(*   base64_bin    the Base64 candidates that decode to non-UTF-8 bytes;   *)
(*   hex, hex_bin  the same for the even-length hex candidates;            *)
(*   url           the %XX runs that decode to readable UTF-8 text;        *)
(*   bit_entropy   the entropy of the '0'/'1' string of a binary payload;  *)
(*   block_entropy the entropy of a block of BlockSize characters.         *)
(* Candidates that fail to decode, decode to unreadable text or have odd   *)
(* hex length yield no finding in the source and count only in len.        *)
(***************************************************************************)
TextRecord(l, b, bb, h, hb, u, be, ke) ==
    [len |-> l, base64 |-> b, base64_bin |-> bb, hex |-> h, hex_bin |-> hb,
     url |-> u, bit_entropy |-> be, block_entropy |-> ke]

Prose(l) == TextRecord(l, 0, 0, 0, 0, 0, 0, 420)

WithBase64(l, n) == TextRecord(l, n, 0, 0, 0, 0, 0, 520)

ShortText == Prose(10)
CleanText == Prose(3000)
WarmText == WithBase64(3000, 3)
MidText == WithBase64(2000, 3)
HotText == WithBase64(500, 3)
EdgeText == WithBase64(2140, 3)

\* the characters the candidates of a text take at least
CandidateChars(t) ==
    (min_length + 1) * (t.base64 + t.base64_bin + t.hex + t.hex_bin)
        + 10 * t.url

TextLengths == {0, 10, 15, 16, 60, 500, 1000, 2000, 2140, 3000, 6000}

\* Decoded bytes that are not UTF-8: the profile of the byte values and the
\* number of 1 bits among them.  144 distinct byte values in complementary
\* pairs (0x00 and 0xFF, ...), twelve 0x80 bytes, twelve 0xFF bytes.
BinaryPayloads ==
    {[bytes |-> EvenProfile(144, 144), ones |-> 576],
     [bytes |-> EvenProfile(12, 1), ones |-> 12],
     [bytes |-> EvenProfile(12, 1), ones |-> 96]}

\* the '0'/'1' string ''.join(format(byte, '08b') ...), as a profile
BitProfile(payload) ==
    LET zeros == 8 * ProfileLength(payload.bytes) - payload.ones
    IN  (IF zeros > 0 THEN << [count |-> zeros, symbols |-> 1] >> ELSE << >>)
        \o (IF payload.ones > 0
            THEN << [count |-> payload.ones, symbols |-> 1] >>
            ELSE << >>)

\* binary_entropy
BinaryEntropyOfBytes(payload) == calculate_entropy(payload.bytes)

BinaryEntropy(payload) == calculate_entropy(BitProfile(payload))

BitEntropies == {BinaryEntropy(payload) : payload \in BinaryPayloads}

\* a block of BlockSize characters: the 26 letters, or no character twice
BlockEntropies ==
    {calculate_entropy(EvenProfile(BlockSize, k)) : k \in {26, BlockSize}}

Texts ==
    {t \in [len : TextLengths, base64 : 0..MaxRuns, base64_bin : 0..1,
            hex : 0..MaxRuns, hex_bin : 0..1, url : 0..MaxRuns,
            bit_entropy : BitEntropies, block_entropy : BlockEntropies] :
        CandidateChars(t) <= t.len}

(***************************************************************************)
(* Runs.  Where a claim is about single encoded runs, a text also carries  *)
(* runs, the maximal runs of Base64 or hex characters in it: the codec     *)
(* whose alphabet the run is written in, its number of characters (for     *)
(* Base64 without the '=' padding) and what the run decodes to:            *)
(* "readable" (UTF-8 text that passes is_readable_text), "binary" (not     *)
(* UTF-8) or "unreadable" (anything else).  For a hex run of odd length    *)
(* that is what the run less its last digit decodes to.  The regular       *)
(* expressions are greedy, so each match is one maximal run.               *)
(***************************************************************************)
Run(codec, chars, decoded) ==
    [codec |-> codec, chars |-> chars, decoded |-> decoded]

\* the matches of patterns['base64'] that detect_base64 decodes
Base64Candidates(runs) ==
    SelectSeq(runs, LAMBDA r : r.codec = "base64" /\ r.chars >= min_length)

\* the matches of patterns['hex'] that detect_hex decodes
HexCandidatesOfAnyLength(runs) ==
    SelectSeq(runs, LAMBDA r : r.codec = "hex" /\ r.chars >= min_length)

HexCandidates(runs) ==
    SelectSeq(runs, LAMBDA r : /\ r.codec = "hex"
                               /\ r.chars >= min_length
                               /\ r.chars % 2 = 0)

\* how many of the candidates decode to the given class
Decoding(candidates, class) ==
    Len(SelectSeq(candidates, LAMBDA r : r.decoded = class))

\* the text of l characters that holds the runs
RunText(l, runs, be, ke) ==
    [len |-> l,
     base64 |-> Decoding(Base64Candidates(runs), "readable"),
     base64_bin |-> Decoding(Base64Candidates(runs), "binary"),
     hex |-> Decoding(HexCandidates(runs), "readable"),
     hex_bin |-> Decoding(HexCandidates(runs), "binary"),
     url |-> 0, bit_entropy |-> be, block_entropy |-> ke, runs |-> runs]

(***************************************************************************)
(* Findings: type, confidence (thousandths), entropy (hundredths, 0 when   *)
(* the finding carries none, as f.get('entropy', 0) reads it).             *)
(***************************************************************************)
Finding(type, confidence, entropy) ==
    [type |-> type, confidence |-> confidence, entropy |-> entropy]

\* EncodingDetector.detect_base64
detect_base64(t) ==
    Copies(t.base64, Finding("base64", 900, 0))
        \o (IF t.bit_entropy > 700
            THEN Copies(t.base64_bin, Finding("base64_binary", 700, t.bit_entropy))
            ELSE << >>)

\* EncodingDetector.detect_hex
detect_hex(t) ==
    Copies(t.hex, Finding("hexadecimal", 850, 0))
        \o (IF t.bit_entropy > 700
            THEN Copies(t.hex_bin, Finding("hex_binary", 600, t.bit_entropy))
            ELSE << >>)

\* EncodingDetector.detect_url_encoding
detect_url_encoding(t) == Copies(t.url, Finding("url_encoding", 800, 0))

\* if entropy > 7.0
EntropyFlaggedAboveSix(entropy) == entropy > 600

EntropyFlagged(entropy) == entropy > 700

\* "confidence": min(0.5 + (entropy - 7.0) / 2.0, 0.95)
HighEntropyConfidenceUncapped(entropy) == 500 + 5 * (entropy - 700)

HighEntropyConfidence(entropy) == Min(500 + 5 * (entropy - 700), 950)

\* the loop over the blocks; a block is [len, entropy]
ScanBlocks(blocks, block_size) ==
    LET flagged ==
            SelectSeq(blocks,
                      LAMBDA b : /\ 2 * b.len >= block_size
                                 /\ EntropyFlagged(b.entropy))
    IN  [k \in DOMAIN flagged |->
            Finding("high_entropy", HighEntropyConfidence(flagged[k].entropy),
                    flagged[k].entropy)]

\* EncodingDetector.detect_high_entropy on a text of length characters
\* given as its blocks text[i : i + block_size]
HighEntropyScan(length, blocks, block_size) ==
    IF 2 * length < block_size THEN << >>
    ELSE ScanBlocks(blocks, block_size)

\* the blocks of a page text
TextBlocks(t) ==
    [i \in 1..((t.len + BlockSize - 1) \div BlockSize) |->
        [len |-> Min(BlockSize, t.len - (i - 1) * BlockSize),
         entropy |-> t.block_entropy]]

\* EncodingDetector.detect_high_entropy with block_size = BlockSize
detect_high_entropy(t) == HighEntropyScan(t.len, TextBlocks(t), BlockSize)

\* list.sort(key=confidence, reverse=True): stable, descending
RECURSIVE InsertByConfidence(_, _)
InsertByConfidence(sorted, f) ==
    IF sorted = << >> THEN << f >>
    ELSE IF Head(sorted).confidence >= f.confidence
         THEN << Head(sorted) >> \o InsertByConfidence(Tail(sorted), f)
         ELSE << f >> \o sorted

RECURSIVE SortByConfidence(_)
SortByConfidence(fs) ==
    IF fs = << >> THEN << >>
    ELSE InsertByConfidence(SortByConfidence(SubSeq(fs, 1, Len(fs) - 1)),
                            fs[Len(fs)])

(***************************************************************************)
(* The scorer of detect_encodings.  With L = len(text) the accumulated     *)
(* score is ScoreNum / (10 * L):                                           *)
(*   pattern_density = n / (L / 1000)                 -> 10000 * n         *)
(*   high_confidence_patterns * 0.5                   -> 5 * hc * L        *)
(*   high_entropy_blocks                              -> 10 * heb * L      *)
(*   base64_patterns * 0.7                            -> 7 * b64 * L       *)
(***************************************************************************)
DensityFires(t, findings) == 2000 * Len(findings) > t.len

HighConfidencePatternsAboveNine(findings) ==
    Cardinality({k \in DOMAIN findings : findings[k].confidence > 900})

HighConfidencePatterns(findings) ==
    Cardinality({k \in DOMAIN findings : findings[k].confidence > 800})

HighEntropyBlocks(entropy_findings) ==
    Cardinality({k \in DOMAIN entropy_findings :
                    entropy_findings[k].entropy > 750})

ScoreNum(t, findings, base64_findings, entropy_findings) ==
    (IF DensityFires(t, findings) THEN 10000 * Len(findings) ELSE 0)
    + (IF HighConfidencePatterns(findings) >= 3
       THEN 5 * HighConfidencePatterns(findings) * t.len ELSE 0)
    + (IF HighEntropyBlocks(entropy_findings) > 0
       THEN 10 * HighEntropyBlocks(entropy_findings) * t.len ELSE 0)
    + (IF Len(base64_findings) > 2
       THEN 7 * Len(base64_findings) * t.len ELSE 0)

\* suspicion_reasons as the four rules append them; a reason is its text
\* and the number formatted into it (the density to 2 decimals)
ScoreReasons(t, findings, base64_findings, entropy_findings) ==
    (IF DensityFires(t, findings)
     THEN << << "High pattern density", RoundDiv(100000 * Len(findings), t.len) >> >>
     ELSE << >>)
    \o (IF HighConfidencePatterns(findings) >= 3
        THEN << << "Multiple high-confidence patterns",
                   HighConfidencePatterns(findings) >> >>
        ELSE << >>)
    \o (IF HighEntropyBlocks(entropy_findings) > 0
        THEN << << "High entropy blocks found",
                   HighEntropyBlocks(entropy_findings) >> >>
        ELSE << >>)
    \o (IF Len(base64_findings) > 2
        THEN << << "Multiple Base64 patterns", Len(base64_findings) >> >>
        ELSE << >>)

\* suspicion_score > 5.0
OverThresholdOfSix(num, len) == num > 60 * len

OverThreshold(num, len) == num > 50 * len

\* the reasons stored in the result
ReportedReasonsKept(num, len, reasons) == reasons

ReportedReasons(num, len, reasons) ==
    IF OverThreshold(num, len) THEN reasons ELSE << >>

\* if not text or len(text) < self.min_length
TooShortEmptyOnly(t) == t.len = 0

TooShort(t) == t.len = 0 \/ t.len < min_length

\* EncodingDetector.detect_encodings
detect_encodings(t) ==
    IF TooShort(t)
    THEN [findings |-> << >>, suspicious |-> FALSE, suspicion_score |-> 0,
          suspicion_reasons |-> << >>]
    ELSE LET base64_findings == detect_base64(t)
             hex_findings == detect_hex(t)
             url_findings == detect_url_encoding(t)
             entropy_findings == detect_high_entropy(t)
             findings == base64_findings \o hex_findings \o url_findings
                             \o entropy_findings
             num == ScoreNum(t, findings, base64_findings, entropy_findings)
             reasons == ScoreReasons(t, findings, base64_findings,
                                     entropy_findings)
         IN  [findings |-> SortByConfidence(findings),
              suspicious |-> OverThreshold(num, t.len),
              suspicion_score |-> RoundDiv(10 * num, t.len),
              suspicion_reasons |-> ReportedReasons(num, t.len, reasons)]

(***************************************************************************)
(* Documents.  A PDF is valid (fitz opens it) or not; a valid one has its  *)
(* pages' texts and its metadata, a set of << key, value >> pairs.         *)
(***************************************************************************)
Metadatas == { {}, {<< "title", "report" >>} }

RECURSIVE SeqsUpTo(_, _)
SeqsUpTo(S, n) ==
    IF n = 0 THEN {<< >>}
    ELSE LET shorter == SeqsUpTo(S, n - 1)
         IN  shorter \cup {Append(q, x) : q \in shorter, x \in S}

CorruptDocument == [valid |-> FALSE, pages |-> << >>, metadata |-> {}]

(***************************************************************************)
(* PdfProcessor.process_pdf_chunk                                          *)
(***************************************************************************)
\* one entry of results: the page dict (tables, visual elements and
\* rotation are the PDF library's and are left out)
PageResult(d, page_num) ==
    LET encoding_results == detect_encodings(d.pages[page_num + 1])
    IN  [page_number |-> page_num,
         text |-> d.pages[page_num + 1],
         encoded_sections |-> encoding_results.findings,
         suspicious |-> encoding_results.suspicious,
         suspicion_score |-> encoding_results.suspicion_score,
         suspicion_reasons |-> encoding_results.suspicion_reasons]

\* 'processed_pages': end_page - start_page
ProcessedPagesInclusive(start_page, end_page) == end_page - start_page + 1

ProcessedPages(start_page, end_page) == end_page - start_page

process_pdf_chunk(d, page_range) ==
    LET total == Len(d.pages)
        start_page == Max(0, page_range[1])
        end_page == Min(total, page_range[2])
        nums == Range(start_page, end_page)
    IN  [total_pages |-> total,
         processed_pages |-> ProcessedPages(start_page, end_page),
         extracted_content |->
             [k \in DOMAIN nums |-> PageResult(d, nums[k])],
         document_metadata |-> d.metadata]

(***************************************************************************)
(* orchestrator_function: the chunk ranges                                 *)
(***************************************************************************)
\* range(0, stop, step) for stop >= 0 and step # 0
RangeStep(stop, step) ==
    IF step > 0
    THEN [k \in 1..((stop + step - 1) \div step) |-> (k - 1) * step]
    ELSE << >>

\* the end of the chunk that starts at i
ChunkEndUnclamped(i, size, total) == i + size

ChunkEnd(i, size, total) == Min(i + size, total)

\* chunks = [(i, min(i + chunk_size, total_pages))
\*           for i in range(0, total_pages, chunk_size)]
ChunkRanges(total, size) ==
    LET starts == RangeStep(total, size)
    IN  [k \in DOMAIN starts |->
            << starts[k], ChunkEnd(starts[k], size, total) >>]

(***************************************************************************)
(* combine_results                                                         *)
(***************************************************************************)
\* extracted_content.sort(key=page_number): stable, ascending
RECURSIVE InsertByPageNumberDescending(_, _)
InsertByPageNumberDescending(sorted, page) ==
    IF sorted = << >> THEN << page >>
    ELSE IF Head(sorted).page_number >= page.page_number
         THEN << Head(sorted) >>
                  \o InsertByPageNumberDescending(Tail(sorted), page)
         ELSE << page >> \o sorted

RECURSIVE InsertByPageNumber(_, _)
InsertByPageNumber(sorted, page) ==
    IF sorted = << >> THEN << page >>
    ELSE IF Head(sorted).page_number <= page.page_number
         THEN << Head(sorted) >> \o InsertByPageNumber(Tail(sorted), page)
         ELSE << page >> \o sorted

RECURSIVE SortByPageNumber(_)
SortByPageNumber(content) ==
    IF content = << >> THEN << >>
    ELSE InsertByPageNumber(
             SortByPageNumber(SubSeq(content, 1, Len(content) - 1)),
             content[Len(content)])

\* the combined content as returned
SortedContent(content) == SortByPageNumber(content)

\* the body of "for page in result['extracted_content']"
RECURSIVE PageLoop(_, _)
PageLoop(acc, pages) ==
    IF pages = << >> THEN acc
    ELSE LET page == Head(pages)
             next == [acc EXCEPT
                 !.suspicious_pages =
                     IF page.suspicious THEN @ + 1 ELSE @,
                 !.total_suspicion_score = @ + page.suspicion_score,
                 !.max_suspicion_score = Max(@, page.suspicion_score),
                 !.all_suspicion_reasons =
                     @ \cup {page.suspicion_reasons[k] :
                                k \in DOMAIN page.suspicion_reasons}]
         IN  PageLoop(next, Tail(pages))

\* the body of "for result in results"
RECURSIVE ChunkLoop(_, _)
ChunkLoop(acc, rs) ==
    IF rs = << >> THEN acc
    ELSE LET result == Head(rs)
             merged == [acc EXCEPT
                 !.total_pages = Max(@, result.total_pages),
                 !.processed_pages = @ + result.processed_pages,
                 !.extracted_content = @ \o result.extracted_content,
                 !.document_metadata =
                     IF Cardinality(result.document_metadata) > Cardinality(@)
                     THEN result.document_metadata ELSE @]
         IN  ChunkLoop(PageLoop(merged, result.extracted_content), Tail(rs))

EmptyCombined ==
    [total_pages |-> 0, processed_pages |-> 0, extracted_content |-> << >>,
     document_metadata |-> {}, suspicious_pages |-> 0,
     total_suspicion_score |-> 0, max_suspicion_score |-> 0,
     all_suspicion_reasons |-> {}]

\* the divisor of average_suspicion_score
AverageOverTotal(acc) == acc.total_pages

AverageDivisor(acc) == acc.processed_pages

\* overall_suspicious, once processed_pages > 0
OverallAll(suspicious_pages, processed, average, maximum) ==
    5 * suspicious_pages > processed /\ average > 300 /\ maximum > 700

Overall(suspicious_pages, processed, average, maximum) ==
    5 * suspicious_pages > processed \/ average > 300 \/ maximum > 700

combine_results(rs) ==
    LET acc == ChunkLoop(EmptyCombined, rs)
        average == IF acc.processed_pages > 0
                   THEN RoundDiv(acc.total_suspicion_score, AverageDivisor(acc))
                   ELSE 0
    IN  [total_pages |-> acc.total_pages,
         processed_pages |-> acc.processed_pages,
         extracted_content |-> SortedContent(acc.extracted_content),
         document_metadata |-> acc.document_metadata,
         document_analysis |->
             [suspicious_pages |-> acc.suspicious_pages,
              average_suspicion_score |-> average,
              overall_suspicious |->
                  IF acc.processed_pages > 0
                  THEN Overall(acc.suspicious_pages, acc.processed_pages,
                               average, acc.max_suspicion_score)
                  ELSE FALSE,
              all_suspicion_reasons |-> acc.all_suspicion_reasons,
              max_suspicion_score |-> acc.max_suspicion_score]]

(***************************************************************************)
(* State outside the part a specification exercises.                       *)
(***************************************************************************)
NoDetector == text = ShortText /\ detection = << >>

NoOrchestrator ==
    /\ request = << >>
    /\ dispatched = << >>
    /\ responses = << >>
    /\ combine_calls = 0

NoAggregator ==
    /\ doc = CorruptDocument
    /\ tasks = << >>
    /\ completed = << >>
    /\ results = << >>
    /\ combined = << >>

(***************************************************************************)
(* SpecDetect: detect_encodings applied to a page text.                    *)
(***************************************************************************)
InitDetect ==
    /\ text \in Texts
    /\ detection = << >>
    /\ pc = "detect"
    /\ total_pages = 0 /\ chunk_size = 0 /\ chunks = << >>
    /\ NoOrchestrator /\ NoAggregator

Detect ==
    /\ pc = "detect"
    /\ detection' = << detect_encodings(text) >>
    /\ pc' = "detected"
    /\ UNCHANGED << text, doc, request, total_pages, chunk_size, chunks, tasks,
                    dispatched, completed, results, combined, responses,
                    combine_calls >>

NextDetect == Detect

SpecDetect == InitDetect /\ [][NextDetect]_vars

(***************************************************************************)
(* SpecBase64Page: detect_encodings applied to a page of which two fifths  *)
(* are Base64 encodings of readable English sentences, in n runs of equal  *)
(* length (the last one takes the remainder), the rest being prose.        *)
(***************************************************************************)
Base64PageLengths ==
    {40, 100, 200, 395, 400, 1000, 2000, 2140, 2145, 3000, 5000, 7995, 8000,
     10000, 20000}

Base64Runs(l, n) ==
    LET total == (2 * l) \div 5
        each == total \div n
    IN  [k \in 1..n |->
            Run("base64", IF k = n THEN total - (n - 1) * each ELSE each,
                "readable")]

\* a block of such a page stays within the 64 Base64 symbols and the prose
Base64Page(l, n) ==
    RunText(l, Base64Runs(l, n), 0,
            calculate_entropy(EvenProfile(BlockSize, 64)))

InitBase64Page ==
    /\ text \in {Base64Page(l, n) : l \in Base64PageLengths,
                                     n \in 1..MaxBase64Runs}
    /\ detection = << >>
    /\ pc = "detect"
    /\ total_pages = 0 /\ chunk_size = 0 /\ chunks = << >>
    /\ NoOrchestrator /\ NoAggregator

SpecBase64Page == InitBase64Page /\ [][NextDetect]_vars

(***************************************************************************)
(* SpecHex: detect_encodings applied to a page of 200 characters that      *)
(* holds maximal runs of hex digits of 15 to 33 digits.  (A run of hex     *)
(* digits is also a match of patterns['base64']; read as Base64 these      *)
(* runs do not decode to readable text.)                                   *)
(***************************************************************************)
HexRunLengths == {15, 16, 17, 18, 33}

HexRuns ==
    {Run("hex", n, d) :
        n \in HexRunLengths, d \in {"readable", "unreadable", "binary"}}

InitHex ==
    /\ text \in {RunText(200, runs, be, calculate_entropy(EvenProfile(BlockSize, 26))) :
                    runs \in SeqsUpTo(HexRuns, MaxHexRuns), be \in BitEntropies}
    /\ detection = << >>
    /\ pc = "detect"
    /\ total_pages = 0 /\ chunk_size = 0 /\ chunks = << >>
    /\ NoOrchestrator /\ NoAggregator

SpecHex == InitHex /\ [][NextDetect]_vars

(***************************************************************************)
(* SpecEntropy: detect_high_entropy applied to a text with a block size of *)
(* the caller's choice.  The text is the sequence of the profiles of its   *)
(* blocks text[i : i + block_size]: every block but the last has           *)
(* block_size characters, the last one fewer than half of them, exactly    *)
(* half, or all.  A block of 128 characters that are all different has     *)
(* entropy exactly 7.0, one of 256 such characters exactly 8.0.            *)
(***************************************************************************)
BlockSizes == {BlockSize, 128, 256}

Alphabets == {1, 26, 64, 100, 128, 129, 160, 192, 224, 250, 256}

\* the blocks of n characters
BlockProfiles(n) == {EvenProfile(n, k) : k \in {a \in Alphabets : a <= n}}

LastBlockProfiles(block_size) ==
    UNION {BlockProfiles(n) :
              n \in {block_size \div 2 - 1, block_size \div 2, block_size}}

BlockTexts(block_size) ==
    {Append(full, last) :
        full \in SeqsUpTo(BlockProfiles(block_size), MaxBlocks - 1),
        last \in LastBlockProfiles(block_size)}

\* block: [len, entropy] of each block of the text
MeasuredBlocks(blocks) ==
    [k \in DOMAIN blocks |->
        [len |-> ProfileLength(blocks[k]),
         entropy |-> calculate_entropy(blocks[k])]]

\* len(text)
TextLength(blocks) ==
    SumSeq([k \in DOMAIN blocks |-> ProfileLength(blocks[k])])

InitEntropy ==
    /\ text \in UNION {{[block_size |-> bs, blocks |-> blocks] :
                            blocks \in BlockTexts(bs)} : bs \in BlockSizes}
    /\ detection = << >>
    /\ pc = "scan"
    /\ total_pages = 0 /\ chunk_size = 0 /\ chunks = << >>
    /\ NoOrchestrator /\ NoAggregator

Scan ==
    /\ pc = "scan"
    /\ detection' = << HighEntropyScan(TextLength(text.blocks),
                                       MeasuredBlocks(text.blocks),
                                       text.block_size) >>
    /\ pc' = "scanned"
    /\ UNCHANGED << text, doc, request, total_pages, chunk_size, chunks, tasks,
                    dispatched, completed, results, combined, responses,
                    combine_calls >>

NextEntropy == Scan

SpecEntropy == InitEntropy /\ [][NextEntropy]_vars

(***************************************************************************)
(* SpecProcess: process_pdf_chunk applied to a document and a page range   *)
(* of the caller's choice (any two integers, as processor_function takes   *)
(* them from the request), and combine_results applied to that one chunk   *)
(* result.  The accumulated scores of the page texts are 0, 5.1 and        *)
(* 3.6 + 3000/2140 = 5.0019.                                               *)
(***************************************************************************)
ProcessTexts == {CleanText, MidText, EdgeText}

ProcessDocuments ==
    {[valid |-> TRUE, pages |-> pages, metadata |-> {}] :
        pages \in SeqsUpTo(ProcessTexts, MaxChunkPages) \ {<< >>}}

PageRanges == (-1..(MaxChunkPages + 1)) \X (-1..(MaxChunkPages + 1))

InitProcess ==
    /\ doc \in ProcessDocuments
    /\ chunks \in {<< page_range >> : page_range \in PageRanges}
    /\ results = << >>
    /\ combined = << >>
    /\ pc = "process"
    /\ total_pages = 0 /\ chunk_size = 0
    /\ tasks = << >> /\ completed = << >>
    /\ NoDetector /\ NoOrchestrator

Process ==
    /\ pc = "process"
    /\ results' = << process_pdf_chunk(doc, chunks[1]) >>
    /\ pc' = "processed"
    /\ UNCHANGED << text, detection, doc, request, total_pages, chunk_size,
                    chunks, tasks, dispatched, completed, combined, responses,
                    combine_calls >>

MergeChunk ==
    /\ pc = "processed"
    /\ combined' = << combine_results(results) >>
    /\ pc' = "merged"
    /\ UNCHANGED << text, detection, doc, request, total_pages, chunk_size,
                    chunks, tasks, dispatched, completed, results, responses,
                    combine_calls >>

NextProcess == Process \/ MergeChunk

SpecProcess == InitProcess /\ [][NextProcess]_vars

(***************************************************************************)
(* SpecChunks: the chunk ranges of orchestrator_function computed for a    *)
(* page count and a positive chunk size.                                   *)
(***************************************************************************)
InitChunks ==
    /\ total_pages \in 0..MaxTotal
    /\ chunk_size \in 1..MaxStep
    /\ chunks = << >>
    /\ pc = "partition"
    /\ NoDetector /\ NoOrchestrator /\ NoAggregator

Partition ==
    /\ pc = "partition"
    /\ chunks' = ChunkRanges(total_pages, chunk_size)
    /\ pc' = "partitioned"
    /\ UNCHANGED << text, detection, doc, request, total_pages, chunk_size,
                    tasks, dispatched, completed, results, combined, responses,
                    combine_calls >>

NextChunks == Partition

SpecChunks == InitChunks /\ [][NextChunks]_vars

(***************************************************************************)
(* SpecCombine: combine_results applied to a list of chunk results.  The   *)
(* chunk results are those of the chunks of one document, appended in the  *)
(* order they arrive; the list is merged at any length.                    *)
(***************************************************************************)
MergeTexts == {CleanText, WarmText, MidText, HotText}

MergeDocuments ==
    {[valid |-> TRUE, pages |-> p, metadata |-> m] :
        p \in SeqsUpTo(MergeTexts, MaxDocPages), m \in Metadatas}

InitCombine ==
    /\ doc \in MergeDocuments
    /\ total_pages = Len(doc.pages)
    /\ chunk_size \in {c \in 1..MaxDocPages :
                          Len(ChunkRanges(Len(doc.pages), c)) <= MaxMerge}
    /\ chunks = ChunkRanges(total_pages, chunk_size)
    /\ tasks = [k \in DOMAIN chunks |-> "pending"]
    /\ completed = << >>
    /\ results = << >>
    /\ combined = << >>
    /\ pc = "collect"
    /\ NoDetector /\ NoOrchestrator

Arrive(i) ==
    /\ pc = "collect"
    /\ tasks[i] = "pending"
    /\ tasks' = [tasks EXCEPT ![i] = "returned"]
    /\ completed' = Append(completed, i)
    /\ results' = Append(results, process_pdf_chunk(doc, chunks[i]))
    /\ UNCHANGED << text, detection, doc, request, pc, total_pages, chunk_size,
                    chunks, dispatched, combined, responses, combine_calls >>

Merge ==
    /\ pc = "collect"
    /\ combined' = << combine_results(results) >>
    /\ pc' = "merged"
    /\ UNCHANGED << text, detection, doc, request, total_pages, chunk_size,
                    chunks, tasks, dispatched, completed, results, responses,
                    combine_calls >>

NextCombine ==
    \/ \E i \in DOMAIN tasks : Arrive(i)
    \/ Merge

SpecCombine == InitCombine /\ [][NextCombine]_vars

(***************************************************************************)
(* Spec: one orchestration.  orchestrator_function runs from the request   *)
(* to "await asyncio.gather" without suspending; the process_chunk *)
(* tasks then complete one by one in any order; gather wakes the           *)
(* orchestrator with the results in task order, or with the exception of   *)
(* a task that raised.                                                     *)
(***************************************************************************)
OrchestratedTexts == {CleanText, HotText}

OrchestratedDocuments ==
    {[valid |-> TRUE, pages |-> p, metadata |-> {<< "title", "report" >>}] :
        p \in SeqsUpTo(OrchestratedTexts, MaxPages)}
    \cup {CorruptDocument}

\* chunk_size as the caller sends it: absent, not an integer, or an integer
ChunkArgs ==
    {[kind |-> "missing", value |-> 0], [kind |-> "invalid", value |-> 0]}
    \cup {[kind |-> "int", value |-> v] : v \in (-1)..MaxChunkSize}

Requests ==
    {r \in [path : {"multipart", "json"},
            body : {"pdf", "none", "invalid_json"},
            chunk : ChunkArgs] :
        r.path = "multipart" => r.body # "invalid_json"}

\* chunk_size after request parsing: whether range() accepts it, and its value
ParsedChunkSize(req) ==
    IF req.chunk.kind = "missing"
    THEN [usable |-> TRUE, value |-> DefaultChunkSize]
    ELSE IF req.chunk.kind = "invalid"
    THEN IF req.path = "multipart"
         THEN [usable |-> TRUE, value |-> DefaultChunkSize]
         ELSE [usable |-> FALSE, value |-> 0]
    ELSE [usable |-> TRUE, value |-> req.chunk.value]

Init ==
    /\ doc \in OrchestratedDocuments
    /\ request = << >>
    /\ pc = "idle"
    /\ total_pages = 0
    /\ chunk_size = 0
    /\ chunks = << >>
    /\ tasks = << >>
    /\ dispatched = << >>
    /\ completed = << >>
    /\ results = << >>
    /\ combined = << >>
    /\ responses = << >>
    /\ combine_calls = 0
    /\ NoDetector

\* no file, no pdf_data or a body that is not JSON: status 400
RejectRequest(req) ==
    /\ pc = "idle"
    /\ req.body # "pdf"
    /\ request' = << req >>
    /\ responses' = Append(responses, 400)
    /\ pc' = "rejected"
    /\ UNCHANGED << text, detection, doc, total_pages, chunk_size, chunks,
                    tasks, dispatched, completed, results, combined,
                    combine_calls >>

\* the priming call process_pdf_chunk(pdf_data, (0, 1)) raises: status 500
PrimingFails(req) ==
    /\ pc = "idle"
    /\ req.body = "pdf"
    /\ ~doc.valid
    /\ request' = << req >>
    /\ chunk_size' = ParsedChunkSize(req).value
    /\ responses' = Append(responses, 500)
    /\ pc' = "error"
    /\ UNCHANGED << text, detection, doc, total_pages, chunks, tasks,
                    dispatched, completed, results, combined, combine_calls >>

\* range(0, total_pages, chunk_size) raises (step 0, or not an integer):
\* status 500
PartitionFails(req) ==
    /\ pc = "idle"
    /\ req.body = "pdf"
    /\ doc.valid
    /\ ~ParsedChunkSize(req).usable \/ ParsedChunkSize(req).value = 0
    /\ request' = << req >>
    /\ total_pages' = process_pdf_chunk(doc, << 0, 1 >>).total_pages
    /\ chunk_size' = ParsedChunkSize(req).value
    /\ responses' = Append(responses, 500)
    /\ pc' = "error"
    /\ UNCHANGED << text, detection, doc, chunks, tasks, dispatched,
                    completed, results, combined, combine_calls >>

\* the chunks are computed and one process_chunk task is created for each
Dispatch(req) ==
    /\ pc = "idle"
    /\ req.body = "pdf"
    /\ doc.valid
    /\ ParsedChunkSize(req).usable
    /\ ParsedChunkSize(req).value # 0
    /\ request' = << req >>
    /\ total_pages' = process_pdf_chunk(doc, << 0, 1 >>).total_pages
    /\ chunk_size' = ParsedChunkSize(req).value
    /\ chunks' = ChunkRanges(total_pages', chunk_size')
    /\ tasks' = [k \in DOMAIN chunks' |-> "pending"]
    /\ dispatched' = dispatched \o chunks'
    /\ pc' = "gather"
    /\ UNCHANGED << text, detection, doc, completed, results, combined,
                    responses, combine_calls >>

\* process_chunk: the processor answers with the chunk result
TaskReturns(i) ==
    /\ pc = "gather"
    /\ tasks[i] = "pending"
    /\ tasks' = [tasks EXCEPT ![i] = "returned"]
    /\ completed' = Append(completed, i)
    /\ UNCHANGED << text, detection, doc, request, pc, total_pages,
                    chunk_size, chunks, dispatched, results, combined,
                    responses, combine_calls >>

\* process_chunk: the processor answers with JSON that is no chunk result
TaskReturnsMalformed(i) ==
    /\ pc = "gather"
    /\ tasks[i] = "pending"
    /\ tasks' = [tasks EXCEPT ![i] = "malformed"]
    /\ completed' = Append(completed, i)
    /\ UNCHANGED << text, detection, doc, request, pc, total_pages,
                    chunk_size, chunks, dispatched, results, combined,
                    responses, combine_calls >>

\* process_chunk: session.post or response.json() raises
TaskRaises(i) ==
    /\ pc = "gather"
    /\ tasks[i] = "pending"
    /\ tasks' = [tasks EXCEPT ![i] = "raised"]
    /\ completed' = Append(completed, i)
    /\ UNCHANGED << text, detection, doc, request, pc, total_pages,
                    chunk_size, chunks, dispatched, results, combined,
                    responses, combine_calls >>

\* asyncio.gather has a result for every task
GatherReadyFirstCompleted(ts) ==
    \E i \in DOMAIN ts : ts[i] \in {"returned", "malformed"}

GatherReadySkipRaised(ts) == \A i \in DOMAIN ts : ts[i] # "pending"

GatherReady(ts) == \A i \in DOMAIN ts : ts[i] \in {"returned", "malformed"}

\* asyncio.gather propagates the exception of a task
GatherRaised(ts) == \E i \in DOMAIN ts : ts[i] = "raised"

\* the results gather returns: those of the tasks, in task order
GatheredAsCompleted ==
    LET returned == SelectSeq(completed, LAMBDA k : tasks[k] = "returned")
    IN  [k \in DOMAIN returned |-> process_pdf_chunk(doc, chunks[returned[k]])]

GatheredResults ==
    LET returned == SelectSeq([k \in DOMAIN tasks |-> k],
                              LAMBDA k : tasks[k] = "returned")
    IN  [k \in DOMAIN returned |-> process_pdf_chunk(doc, chunks[returned[k]])]

\* gather raises: the except clause answers with status 500
GatherRaises ==
    /\ pc = "gather"
    /\ GatherRaised(tasks)
    /\ responses' = Append(responses, 500)
    /\ pc' = "error"
    /\ UNCHANGED << text, detection, doc, request, total_pages, chunk_size,
                    chunks, tasks, dispatched, completed, results, combined,
                    combine_calls >>

\* gather returns and combine_results is called; a malformed result makes
\* it raise KeyError (status 500), else the document result is returned
GatherReturns ==
    /\ pc = "gather"
    /\ GatherReady(tasks)
    /\ combine_calls' = combine_calls + 1
    /\ results' = GatheredResults
    /\ IF \E i \in DOMAIN tasks : tasks[i] = "malformed"
       THEN /\ responses' = Append(responses, 500)
            /\ pc' = "error"
            /\ UNCHANGED combined
       ELSE /\ combined' = << combine_results(results') >>
            /\ responses' = Append(responses, 200)
            /\ pc' = "done"
    /\ UNCHANGED << text, detection, doc, request, total_pages, chunk_size,
                    chunks, tasks, dispatched, completed >>

Next ==
    \/ \E req \in Requests : RejectRequest(req)
    \/ \E req \in Requests : PrimingFails(req)
    \/ \E req \in Requests : PartitionFails(req)
    \/ \E req \in Requests : Dispatch(req)
    \/ \E i \in DOMAIN tasks : TaskReturns(i)
    \/ \E i \in DOMAIN tasks : TaskReturnsMalformed(i)
    \/ \E i \in DOMAIN tasks : TaskRaises(i)
    \/ GatherRaises
    \/ GatherReturns

Spec == Init /\ [][Next]_vars

(***************************************************************************)
(* Claims about the chunk ranges (SpecChunks).                             *)
(***************************************************************************)
\* the chunks that hold page index p
ChunksHolding(p) ==
    {k \in DOMAIN chunks : chunks[k][1] <= p /\ p < chunks[k][2]}

\* C1: for every total_pages >= 0 and positive chunk_size the chunk ranges
\* partition [0, total_pages): every page index lies in exactly one range,
\* no range is empty and no range reaches past total_pages.
C1_ChunksPartition ==
    pc = "partitioned" =>
        /\ \A p \in 0..(total_pages - 1) : Cardinality(ChunksHolding(p)) = 1
        /\ \A k \in DOMAIN chunks :
              /\ 0 <= chunks[k][1]
              /\ chunks[k][1] < chunks[k][2]
              /\ chunks[k][2] <= total_pages
        /\ \A k \in DOMAIN chunks :
              chunks[k] = << (k - 1) * chunk_size,
                             Min(k * chunk_size, total_pages) >>

\* C1 witness: 12 pages with chunk size 5 give [0,5), [5,10), [10,12)
C1_Witness ==
    /\ pc = "partitioned"
    /\ total_pages = 12
    /\ chunk_size = 5
    /\ chunks = << << 0, 5 >>, << 5, 10 >>, << 10, 12 >> >>

(***************************************************************************)
(* Claims about detect_encodings (SpecDetect).                             *)
(***************************************************************************)
\* the accumulated score of a result, recomputed from its findings:
\* numerator over 10 * len(text)
AccumulatedNum(t, findings) ==
    ScoreNum(t, findings,
             SelectSeq(findings,
                       LAMBDA f : f.type \in {"base64", "base64_binary"}),
             SelectSeq(findings, LAMBDA f : f.type = "high_entropy"))

\* C10: suspicious is true iff the accumulated (unrounded) score is greater
\* than 5.0, and suspicion_reasons is non-empty iff suspicious is true.
C10_SuspiciousIffOverFive ==
    pc = "detected" =>
        LET r == detection[1]
        IN  /\ r.suspicious <=>
                  AccumulatedNum(text, r.findings) > 50 * text.len
            /\ (r.suspicion_reasons # << >>) <=> r.suspicious

\* C10 witness: scoring rules fired, the score stayed at or below 5.0 and
\* the reasons list is empty
C10_Witness ==
    /\ pc = "detected"
    /\ AccumulatedNum(text, detection[1].findings) > 0
    /\ ~detection[1].suspicious
    /\ detection[1].suspicion_reasons = << >>

(***************************************************************************)
(* Claims about combine_results (SpecCombine).                             *)
(***************************************************************************)
\* C3: in every document result extracted_content is sorted ascending by
\* page_number, whatever the order of the chunk results in the list, and it
\* holds the pages of all the chunk results.
C3_ContentSortedByPage ==
    pc = "merged" =>
        LET content == combined[1].extracted_content
        IN  /\ \A k \in 1..(Len(content) - 1) :
                  content[k].page_number <= content[k + 1].page_number
            /\ Len(content) =
                  SumSeq([k \in DOMAIN results |->
                             Len(results[k].extracted_content)])
            /\ \A k \in DOMAIN results :
                  \A j \in DOMAIN results[k].extracted_content :
                      \E m \in DOMAIN content :
                          content[m] = results[k].extracted_content[j]

\* C3 witness: a later chunk arrived before an earlier one and was merged
C3_Witness ==
    /\ pc = "merged"
    /\ Len(results) >= 2
    /\ results[1].extracted_content[1].page_number
           > results[2].extracted_content[1].page_number
    /\ Len(combined[1].extracted_content) >= 3

\* C8: overall_suspicious is true iff processed_pages > 0 and
\* suspicious_pages / processed_pages > 0.2 or average_suspicion_score > 3.0
\* or max_suspicion_score > 7.0, all read from the reported fields.
C8_OverallFromReportedFields ==
    pc = "merged" =>
        LET r == combined[1]
            a == r.document_analysis
        IN  a.overall_suspicious <=>
                /\ r.processed_pages > 0
                /\ \/ 5 * a.suspicious_pages > r.processed_pages
                   \/ a.average_suspicion_score > 300
                   \/ a.max_suspicion_score > 700

\* C8 witness: the maximum alone makes the document suspicious (one page
\* in five is suspicious, the average is at most 3.0)
C8_Witness ==
    /\ pc = "merged"
    /\ combined[1].document_analysis.overall_suspicious
    /\ 5 * combined[1].document_analysis.suspicious_pages
           <= combined[1].processed_pages
    /\ combined[1].document_analysis.average_suspicion_score <= 300
    /\ combined[1].document_analysis.max_suspicion_score > 700

\* the page scores of a chunk result
ChunkScores(result) ==
    [k \in DOMAIN result.extracted_content |->
        result.extracted_content[k].suspicion_score]

\* C9: merging a list of one chunk result reproduces the chunk's page list
\* in order, its total_pages, processed_pages and document_metadata, and
\* gives as average_suspicion_score the mean of the chunk's page scores
\* rounded to 2 decimals.
C9_SingleChunkReproduced ==
    (pc = "merged" /\ Len(results) = 1) =>
        LET r == combined[1]
            c == results[1]
        IN  /\ r.extracted_content = c.extracted_content
            /\ r.total_pages = c.total_pages
            /\ r.processed_pages = c.processed_pages
            /\ r.document_metadata = c.document_metadata
            /\ Len(c.extracted_content) > 0
            /\ r.document_analysis.average_suspicion_score =
                   RoundDiv(SumSeq(ChunkScores(c)), Len(c.extracted_content))

\* C9 witness: a chunk of several pages of a longer document, with
\* metadata and a non-zero mean, merged alone
C9_Witness ==
    /\ pc = "merged"
    /\ Len(results) = 1
    /\ Len(results[1].extracted_content) >= 2
    /\ results[1].total_pages > results[1].processed_pages
    /\ results[1].document_metadata # {}
    /\ combined[1].document_analysis.average_suspicion_score > 0

(***************************************************************************)
(* Claims about an orchestration (Spec).                                   *)
(***************************************************************************)
\* a chunk dispatch failed: its task raised or returned a malformed result
SomeTaskFailed == \E i \in DOMAIN tasks : tasks[i] \in {"raised", "malformed"}

\* C2: when every chunk dispatch of an orchestration succeeds, the
\* processed_pages of the document result equals its total_pages and never
\* exceeds the page count of the document; it equals that page count
\* whenever a chunk was dispatched.
C2_ProcessedEqualsTotal ==
    pc = "done" =>
        /\ combined[1].processed_pages = combined[1].total_pages
        /\ combined[1].processed_pages <= Len(doc.pages)
        /\ combined[1].processed_pages =
               SumSeq([k \in DOMAIN results |-> results[k].processed_pages])
        /\ chunks # << >> => combined[1].processed_pages = Len(doc.pages)

\* C2 witness: three pages in more than one chunk, all dispatches succeeded
C2_Witness ==
    /\ pc = "done"
    /\ Len(chunks) >= 2
    /\ Len(chunks) < Len(doc.pages)
    /\ combined[1].processed_pages = 3

\* the chunk results in the order the dispatches completed
ResultsInCompletionOrder ==
    [k \in DOMAIN completed |-> process_pdf_chunk(doc, chunks[completed[k]])]

\* the chunk results in task order, the order of the chunks
ResultsInTaskOrder ==
    [k \in DOMAIN chunks |-> process_pdf_chunk(doc, chunks[k])]

\* C4: the document result does not depend on the order in which the chunk
\* dispatches complete: whatever that order, the aggregator is given the
\* chunk results in task order, and merging them in completion order
\* instead gives the same total_pages, processed_pages, extracted_content,
\* document_metadata, suspicious_pages, max_suspicion_score and set of
\* all_suspicion_reasons.
C4_CompletionOrderIrrelevant ==
    pc = "done" =>
        LET other == combine_results(ResultsInCompletionOrder)
        IN  /\ results = ResultsInTaskOrder
            /\ combined[1] = combine_results(ResultsInTaskOrder)
            /\ combined[1].total_pages = other.total_pages
            /\ combined[1].processed_pages = other.processed_pages
            /\ combined[1].extracted_content = other.extracted_content
            /\ combined[1].document_metadata = other.document_metadata
            /\ combined[1].document_analysis.suspicious_pages =
                   other.document_analysis.suspicious_pages
            /\ combined[1].document_analysis.max_suspicion_score =
                   other.document_analysis.max_suspicion_score
            /\ combined[1].document_analysis.all_suspicion_reasons =
                   other.document_analysis.all_suspicion_reasons

\* C4 witness: the dispatches completed out of task order, both with pages
\* that carry suspicion reasons
C4_Witness ==
    /\ pc = "done"
    /\ Len(completed) >= 2
    /\ completed[1] > completed[2]
    /\ combined[1].document_analysis.all_suspicion_reasons # {}

C6_CombineAfterAllTasks ==
    /\ combine_calls <= 1
    /\ combine_calls = 1 =>
          /\ \A i \in DOMAIN tasks : tasks[i] # "pending"
          /\ Len(completed) = Len(chunks)
    /\ (combined # << >> \/ results # << >>) => combine_calls = 1

\* C6 witness: several tasks, all completed, and the one call was made
C6_Witness ==
    /\ combine_calls = 1
    /\ Len(tasks) >= 2
    /\ pc = "done"

\* C7 (as claimed): with chunk_size zero, negative or missing the document
\* is partitioned with chunk size 5 and the orchestration proceeds as for
\* chunk_size = 5: the ranges dispatched are those of size 5, and an error
\* response comes only from a failed dispatch.
C7_NonPositiveUsesDefault ==
    (/\ request # << >>
     /\ request[1].body = "pdf"
     /\ doc.valid
     /\ \/ request[1].chunk.kind = "missing"
        \/ request[1].chunk.kind = "int" /\ request[1].chunk.value <= 0)
    => /\ dispatched = ChunkRanges(Len(doc.pages), DefaultChunkSize)
       /\ pc = "error" => SomeTaskFailed

\* what the four detectors find in a text, were they run on it
DetectorFindings(t) ==
    detect_base64(t) \o detect_hex(t) \o detect_url_encoding(t)
        \o detect_high_entropy(t)

\* C11: for every page text shorter than 16 characters, the empty text
\* included, detect_encodings returns suspicious = false, score 0.0, no
\* findings and no reasons, whatever the text holds.
C11_ShortTextEmptyResult ==
    pc = "detected" /\ text.len < 16 =>
        detection[1] = [findings |-> << >>, suspicious |-> FALSE,
                        suspicion_score |-> 0, suspicion_reasons |-> << >>]

\* C11 witness: a 15-character text holding a %XX run that the URL detector
\* would report got the empty result
C11_Witness ==
    /\ pc = "detected"
    /\ text.len = 15
    /\ DetectorFindings(text) # << >>
    /\ detection[1].findings = << >>
    /\ ~detection[1].suspicious

(***************************************************************************)
(* Claims about pages that are 40% Base64 (SpecBase64Page).                *)
(***************************************************************************)
\* a reason of the list mentions "Base64" or "high-confidence"
MentionsBase64OrHighConfidence(reasons) ==
    \E k \in DOMAIN reasons :
        reasons[k][1] \in {"Multiple Base64 patterns",
                           "Multiple high-confidence patterns"}

\* C12 as stated: every page whose text consists to 40% of Base64 encodings
\* of readable English sentences is flagged suspicious, with a reason that
\* mentions "Base64" or "high-confidence", for any page length and any
\* number of runs.
C12_Base64PageFlagged ==
    pc = "detected" =>
        /\ detection[1].suspicious
        /\ MentionsBase64OrHighConfidence(detection[1].suspicion_reasons)

\* the runs of the page that are long enough to be decoded are enough, for
\* its length, to bring the score above 5.0
EnoughBase64Runs(t) ==
    LET n == Len(Base64Candidates(t.runs))
    IN  \/ n >= 5
        \/ n = 4 /\ t.len < 8000
        \/ n = 3 /\ 7 * t.len < 15000

\* C12 amended: such a page is flagged when it holds at least five runs of
\* 16 or more Base64 characters, or four on a page shorter than 8000
\* characters, or three on a page shorter than 2143 characters, and its
\* reasons then hold "Multiple high-confidence patterns" and "Multiple
\* Base64 patterns".  With three or four runs on a longer page, and nothing
\* else encoded on it, the page is not flagged; with fewer than three it is
\* flagged only when it has fewer than 200 characters per run, and then no
\* reason mentions "Base64" or "high-confidence".
C12_Base64RunsFlagged ==
    pc = "detected" =>
        LET r == detection[1]
            n == Len(Base64Candidates(text.runs))
        IN  /\ EnoughBase64Runs(text) =>
                  /\ r.suspicious
                  /\ \E k \in DOMAIN r.suspicion_reasons :
                        r.suspicion_reasons[k] =
                            << "Multiple high-confidence patterns", n >>
                  /\ \E k \in DOMAIN r.suspicion_reasons :
                        r.suspicion_reasons[k] =
                            << "Multiple Base64 patterns", n >>
            /\ n >= 3 /\ ~EnoughBase64Runs(text) =>
                  ~r.suspicious /\ r.suspicion_reasons = << >>
            /\ n < 3 =>
                  /\ r.suspicious <=> text.len < 200 * n
                  /\ ~MentionsBase64OrHighConfidence(r.suspicion_reasons)

\* C12 witness: a page of 20000 characters with five Base64 runs of 1600
\* characters was flagged, the density rule not having fired
C12_Witness ==
    /\ pc = "detected"
    /\ text.len = 20000
    /\ Len(text.runs) = 5
    /\ text.runs[1].chars = 1600
    /\ detection[1].suspicious
    /\ Len(detection[1].suspicion_reasons) = 2

(***************************************************************************)
(* Claims about detect_high_entropy (SpecEntropy).                         *)
(***************************************************************************)
\* min(0.5 + (entropy - 7.0) / 2.0, 0.95), in thousandths
ScaledConfidence(entropy) ==
    IF 500 + 5 * (entropy - 700) < 950 THEN 500 + 5 * (entropy - 700) ELSE 950

\* the blocks of the text that are long enough to be measured
MeasuredIndices ==
    IF 2 * TextLength(text.blocks) < text.block_size THEN {}
    ELSE {k \in DOMAIN text.blocks :
             2 * ProfileLength(text.blocks[k]) >= text.block_size}

\* C13 as stated: a measured block of entropy exactly 7.0 gets a finding
\* with confidence 0.5, one of entropy 8.0 a finding with confidence 0.95,
\* and in general the confidence is min(0.5 + (entropy - 7.0) / 2.0, 0.95).
C13_ConfidenceFromSevenUp ==
    pc = "scanned" =>
        \A k \in MeasuredIndices :
            LET entropy == calculate_entropy(text.blocks[k])
            IN  entropy >= 700 =>
                    \E j \in DOMAIN detection[1] :
                        /\ detection[1][j].entropy = entropy
                        /\ detection[1][j].confidence = ScaledConfidence(entropy)

\* C13 amended: a measured block gets a finding exactly when its entropy
\* is above 7.0, and the confidence of the finding is
\* min(0.5 + (entropy - 7.0) / 2.0, 0.95): 0.95 at entropy 8.0, and above
\* 0.5 always; a block of entropy exactly 7.0 gets no finding.
C13_ConfidenceAboveSeven ==
    pc = "scanned" =>
        LET fs == detection[1]
            above == {k \in MeasuredIndices :
                         calculate_entropy(text.blocks[k]) > 700}
        IN  /\ Len(fs) = Cardinality(above)
            /\ \A j \in DOMAIN fs :
                  /\ fs[j].type = "high_entropy"
                  /\ fs[j].entropy > 700
                  /\ fs[j].confidence = ScaledConfidence(fs[j].entropy)
                  /\ fs[j].confidence > 500
                  /\ fs[j].entropy = 800 => fs[j].confidence = 950
            /\ \A k \in above :
                  \E j \in DOMAIN fs :
                      fs[j].entropy = calculate_entropy(text.blocks[k])

\* C13 witness: a block of 256 different characters (entropy 8.0) followed
\* by one of 128 different characters (entropy 7.0), scanned with block
\* size 256, gave one finding, of confidence 0.95
C13_Witness ==
    /\ pc = "scanned"
    /\ text.block_size = 256
    /\ text.blocks = << EvenProfile(256, 256), EvenProfile(128, 128) >>
    /\ MeasuredIndices = {1, 2}
    /\ calculate_entropy(text.blocks[2]) = 700
    /\ detection[1] = << Finding("high_entropy", 950, 800) >>

(***************************************************************************)
(* Claims about single hex runs (SpecHex).                                 *)
(***************************************************************************)
\* the findings of the hex detector in a result
HexFindings(r) ==
    {k \in DOMAIN r.findings : r.findings[k].type \in {"hexadecimal", "hex_binary"}}

\* C14: the hex detector never emits a finding, hexadecimal or hex_binary,
\* for a maximal run of hex digits of odd length, even when the run has 16
\* or more digits and an even part of it would decode to readable text: the
\* hex findings of a page are as many as its runs of even length of at
\* least 16 digits that decode to readable text, and none when every run is
\* of odd length.
C14_OddHexRunNoFinding ==
    pc = "detected" =>
        LET runs == text.runs
            even == {k \in DOMAIN runs :
                        /\ runs[k].chars % 2 = 0
                        /\ runs[k].chars >= 16
                        /\ runs[k].decoded = "readable"}
        IN  /\ Cardinality(HexFindings(detection[1])) = Cardinality(even)
            /\ (\A k \in DOMAIN runs : runs[k].chars % 2 = 1) =>
                  HexFindings(detection[1]) = {}

\* C14 witness: a page with a run of 33 hex digits whose first 32 would
\* decode to readable text, and a run of 16 digits that does, got one
\* finding
C14_Witness ==
    /\ pc = "detected"
    /\ text.runs = << Run("hex", 33, "readable"), Run("hex", 16, "readable") >>
    /\ detection[1].findings = << Finding("hexadecimal", 850, 0) >>

(***************************************************************************)
(* Claims about process_pdf_chunk (SpecProcess).                           *)
(***************************************************************************)
\* C15: process_pdf_chunk returns exactly one page result for each page
\* index in [max(0, start), min(total_pages, end)), in ascending order of
\* the index, none repeated and none outside; each is the result of the
\* detector on that page's text; total_pages is the page count of the
\* whole document.
C15_OneResultPerPageInRange ==
    pc \in {"processed", "merged"} =>
        LET r == results[1]
            first == Max(0, chunks[1][1])
            last == Min(Len(doc.pages), chunks[1][2])
            content == r.extracted_content
        IN  /\ r.total_pages = Len(doc.pages)
            /\ Len(content) = Max(0, last - first)
            /\ \A k \in DOMAIN content :
                  /\ content[k].page_number = first + k - 1
                  /\ content[k].text = doc.pages[first + k]
                  /\ content[k].suspicious =
                        detect_encodings(doc.pages[first + k]).suspicious
                  /\ content[k].suspicion_score =
                        detect_encodings(doc.pages[first + k]).suspicion_score
            /\ \A p \in 0..(Len(doc.pages) - 1) :
                  Cardinality({k \in DOMAIN content :
                                  content[k].page_number = p})
                      = IF first <= p /\ p < last THEN 1 ELSE 0

\* C15 witness: the range (-1, 2) of a 3-page document gave pages 0 and 1
C15_Witness ==
    /\ pc = "processed"
    /\ Len(doc.pages) = 3
    /\ chunks[1] = << -1, 2 >>
    /\ Len(results[1].extracted_content) = 2
    /\ results[1].extracted_content[1].page_number = 0
    /\ results[1].extracted_content[2].page_number = 1

\* C16: in every chunk result, for any page range, also one with start >=
\* end or with start beyond the last page, processed_pages is non-negative
\* and equals the number of page results in the chunk.
C16_ProcessedCountsPageResults ==
    pc \in {"processed", "merged"} =>
        /\ results[1].processed_pages >= 0
        /\ results[1].processed_pages = Len(results[1].extracted_content)

\* C17 as stated: suspicious is true exactly when the reported (rounded)
\* suspicion_score is greater than 5.0, so that the aggregator's
\* max_suspicion_score is greater than 5.0 exactly when suspicious_pages is
\* at least 1.
C17_SuspiciousIffReportedOverFive ==
    /\ pc \in {"processed", "merged"} =>
          \A k \in DOMAIN results[1].extracted_content :
              LET page == results[1].extracted_content[k]
              IN  page.suspicious <=> page.suspicion_score > 500
    /\ pc = "merged" =>
          LET analysis == combined[1].document_analysis
          IN  analysis.max_suspicion_score > 500
                  <=> analysis.suspicious_pages >= 1

\* C17 amended: suspicious is true exactly when the accumulated, unrounded
\* score is greater than 5.0; the reported score of a suspicious page is at
\* least 5.0 and a reported score above 5.0 makes the page suspicious; so
\* a max_suspicion_score above 5.0 implies suspicious_pages >= 1, and
\* suspicious_pages >= 1 implies a max_suspicion_score of at least 5.0.
C17_ReportedAgainstSuspicious ==
    /\ pc \in {"processed", "merged"} =>
          \A k \in DOMAIN results[1].extracted_content :
              LET page == results[1].extracted_content[k]
              IN  /\ page.suspicious <=>
                        AccumulatedNum(page.text, page.encoded_sections)
                            > 50 * page.text.len
                  /\ page.suspicion_score > 500 => page.suspicious
                  /\ page.suspicious => page.suspicion_score >= 500
    /\ pc = "merged" =>
          LET analysis == combined[1].document_analysis
          IN  /\ analysis.max_suspicion_score > 500
                    => analysis.suspicious_pages >= 1
              /\ analysis.suspicious_pages >= 1
                    => analysis.max_suspicion_score >= 500

\* C17 witness: one page of 2140 characters with three Base64 findings
\* (score 5.0019) was merged: one suspicious page, maximum score 5.0
C17_Witness ==
    /\ pc = "merged"
    /\ Len(results[1].extracted_content) = 1
    /\ results[1].extracted_content[1].text = EdgeText
    /\ results[1].extracted_content[1].suspicious
    /\ results[1].extracted_content[1].suspicion_score = 500
    /\ combined[1].document_analysis.suspicious_pages = 1
    /\ combined[1].document_analysis.max_suspicion_score = 500

(***************************************************************************)
(* Claims about the entropy branches of the detectors (SpecDetect).        *)
(***************************************************************************)
\* C18: no base64_binary and no hex_binary finding is ever emitted: the
\* entropy of the binary branch is taken over a string of '0' and '1', two
\* symbols, so it is at most 1.0 and never above the threshold 7.0.
C18_NoBinaryFinding ==
    pc = "detected" =>
        /\ text.bit_entropy <= 100
        /\ \A k \in DOMAIN detection[1].findings :
              detection[1].findings[k].type \notin {"base64_binary", "hex_binary"}

\* C18 witness: a text with a Base64 run and a hex run that decode to
\* non-UTF-8 bytes whose bit string has entropy 1.0 (as many ones as
\* zeros), and a readable Base64 run, got the one base64 finding
C18_Witness ==
    /\ pc = "detected"
    /\ text.len = 60
    /\ text.base64_bin = 1 /\ text.hex_bin = 1
    /\ text.bit_entropy = 100
    /\ detection[1].findings = << Finding("base64", 900, 0) >>

\* C19: with the default block size 100 the high-entropy detector never
\* emits a finding, a block of at most 100 characters having entropy below
\* 7.0; so the rule on high-entropy blocks never adds to a score and every
\* finding of a page result has confidence 0.9, 0.85 or 0.8.
C19_NoHighEntropyFinding ==
    pc = "detected" =>
        LET r == detection[1]
        IN  /\ text.block_entropy < 700
            /\ \A k \in DOMAIN r.findings :
                  /\ r.findings[k].type # "high_entropy"
                  /\ r.findings[k].confidence \in {900, 850, 800}
            /\ HighEntropyBlocks(detect_high_entropy(text)) = 0
            /\ \A k \in DOMAIN r.suspicion_reasons :
                  r.suspicion_reasons[k][1] # "High entropy blocks found"

\* C19 witness: a text of 6000 characters whose blocks of 100 hold no
\* character twice (entropy log2(100), the most a block can have) got
\* findings, flagged suspicious, none of them a high-entropy one
C19_Witness ==
    /\ pc = "detected"
    /\ text.len = 6000
    /\ text.block_entropy = calculate_entropy(EvenProfile(BlockSize, BlockSize))
    /\ detection[1].suspicious
    /\ Len(detection[1].findings) >= 3

====
